---- MODULE Spec2Model ----
(***************************************************************************)
(* A state-machine model of cogent3's model-fitting and hypothesis-testing *)
(* layer (src/src/cogent3/app/evo.py): model.fit, hypothesis, bootstrap,   *)
(* the natsel_* constructors, and of the ML tree evaluator                 *)
(* (src/cogent3/phylo/maximum_likelihood.py).                              *)
(* The likelihood function, the optimiser and the result containers are    *)
(* collaborators: their outcomes (an optimiser bounds error, a failed      *)
(* warm start, a rejected alignment) are inputs chosen by the environment. *)
(***************************************************************************)
EXTENDS Integers, Sequences, FiniteSets, TLC

(***************************************************************************)
(* Bounds of the model.                                                    *)
(***************************************************************************)
MaxAlts == 2
MaxReps == 2
NumAlns == 4
MaxFits == 3
NumWorkers == 2
MaxSplitFits == 2
MaxEvals == 2
MaxCost == 3
MaxRules == 2
MaxOptFits == 2
MaxSelCalls == 2

(***************************************************************************)
(* Values.                                                                 *)
(***************************************************************************)
None == [kind |-> "None"]

\* The names models are given, in the order a caller first uses them.
ModelNames == << "GN", "HKY", "F81", "TN93", "JC69" >>

\* The sequence names of the alignments offered to the program: two different
\* three-sequence alignments and a four-sequence one, repeated cyclically, so
\* that alignments 1 and 4 are different alignments of the same sequences.
NameSets == << {"a", "b", "c"}, {"a", "b", "d"}, {"a", "b", "c", "d"} >>

AlnNames(i) == NameSets[((i - 1) % Len(NameSets)) + 1]

\* aln.info.source of a loaded alignment (sim = -1) or of a simulated one.
Source(path, sim) == [path |-> path, sim |-> sim]

Aln(i) == [kind |-> "aln", source |-> Source(i, -1), names |-> AlnNames(i)]

Alns == {Aln(i) : i \in 1..NumAlns}

\* make_tree(tip_names=aln.names): a star over the given names.
StarTree(names) == [kind |-> "tree", shape |-> "star", tips |-> names]

\* A tree supplied by the caller at construction.
GivenTree == [kind |-> "tree", shape |-> "given", tips |-> {"a", "b", "c"}]

\* A raised exception, as the outcome of a call.
Raised(exc) == [kind |-> "Raised", exc |-> exc]

\* One entry of the event log of a hypothesis test.
Event(ev, m, exc) == [ev |-> ev, m |-> m, exc |-> exc]

(***************************************************************************)
(* model: one substitution model + tree, fitted to alignments.             *)
(***************************************************************************)

\* What the environment decides for one fit: whether the likelihood function
\* accepts an alignment whose names differ from the tree's tips (bind), whether
\* the initialise callback's copy of parameter values works (ini), and whether
\* the optimiser ends with a bounds error (opt).
Outcomes == [bind : {"ok", "raise"}, ini : {"ok", "raise"}, opt : {"ok", "ValueError"}]

\* model.fit, the tree guard: with no tree the alignment must have exactly
\* three sequences, and the star made from its names is stored on the model.
FitTree(tree, aln) ==
    IF tree = None
    THEN IF Cardinality(aln.names) = 3
         THEN [exc |-> "none", tree |-> StarTree(aln.names)]
         ELSE [exc |-> "AssertionError", tree |-> tree]
    ELSE [exc |-> "none", tree |-> tree]

\* sm.make_likelihood_function(self._tree) followed by lf.set_alignment(aln).
MakeLF(tree, aln) ==
    [kind |-> "lf", tree |-> tree, aln |-> aln, optimised |-> FALSE]

\* DefaultInit without its try / except: the copy's exception escapes.
DefaultInitNoCatch(ini) ==
    IF ini = "ok" THEN [exc |-> "none", note |-> "copied"]
                  ELSE [exc |-> "ValueError", note |-> "raised"]

\* The default initialiser of hypothesis._initialised_alt_from_null:
\* alt.initialise_from_nested(null.lf) inside try / except: pass.
DefaultInit(ini) ==
    [exc |-> "none", note |-> IF ini = "ok" THEN "copied" ELSE "swallowed"]

\* A caller-supplied initialiser: nothing catches what it raises.
CustomInit(ini) ==
    IF ini = "ok" THEN [exc |-> "none", note |-> "custom"]
                  ELSE [exc |-> "TypeError", note |-> "raised"]

\* initialise(lf, identifier) as called by model._configure_lf.
Initialise(initialise, ini) ==
    CASE initialise = "default" -> DefaultInit(ini)
      [] initialise = "custom"  -> CustomInit(ini)
      [] OTHER                  -> [exc |-> "none", note |-> "-"]

\* model._configure_lf: build the likelihood function on self._tree, bind the
\* alignment, call the initialise callback; the result is what self._lf becomes
\* (lf is None when an exception left self._lf as it was). note is what became
\* of the initialise callback ("-" when it was not called).
ConfigureLf(tree, aln, initialise, o) ==
    LET init == Initialise(initialise, o.ini) IN
    IF aln.names # tree.tips /\ o.bind = "raise"
    THEN [exc |-> "AssertionError", lf |-> None, note |-> "-"]
    ELSE IF init.exc # "none"
         THEN [exc |-> init.exc, lf |-> None, note |-> init.note]
         ELSE [exc |-> "none", lf |-> MakeLF(tree, aln), note |-> init.note]

\* model._fit_aln after construction: lf = self._lf; lf.optimise(...).
FitAln(lf, o) ==
    IF lf = None
    THEN [exc |-> "AttributeError", lf |-> lf]
    ELSE IF o.opt = "ValueError"
         THEN [exc |-> "ValueError", lf |-> lf]
         ELSE [exc |-> "none", lf |-> [lf EXCEPT !.optimised = TRUE]]

\* model_result(name=self.name, source=aln.info.source) holding the fitted lf.
ModelResult(name, aln, lf) ==
    [kind |-> "model_result", name |-> name, source |-> aln.source, lf |-> lf]

\* model.fit as one call on model m named name, whose fields are tree and lf:
\* the new fields, the exception or the result, and the events of the call.
Fit(m, name, tree, lf, aln, initialise, construct, o) ==
    LET t    == FitTree(tree, aln)
        c    == IF construct THEN ConfigureLf(t.tree, aln, initialise, o)
                             ELSE [exc |-> "none", lf |-> None, note |-> "-"]
        lf1  == IF construct /\ c.exc = "none" THEN c.lf ELSE lf
        f    == FitAln(lf1, o)
        exc  == IF t.exc # "none" THEN t.exc
                ELSE IF c.exc # "none" THEN c.exc ELSE f.exc
        lf2  == IF t.exc = "none" /\ c.exc = "none" THEN f.lf
                ELSE IF t.exc = "none" THEN lf1 ELSE lf
        evs  == << Event("fit_start", m, "-") >>
                \o (IF t.exc = "none" /\ c.note # "-"
                    THEN << Event("initialise", m, c.note) >> ELSE << >>)
                \o (IF t.exc = "none" /\ c.exc = "none" /\ lf1 # None
                    THEN << Event("optimise", m, f.exc) >> ELSE << >>)
                \o << Event("fit_end", m, exc) >>
    IN  [exc |-> exc, tree |-> t.tree, lf |-> lf2,
         result |-> IF exc = "none" THEN ModelResult(name, aln, lf2) ELSE None,
         events |-> evs]

(***************************************************************************)
(* State.                                                                  *)
(***************************************************************************)
VARIABLES
    hypo,    \* the hypothesis object: construction outcome, model names, init_alt
    mtree,   \* model index -> the model's _tree (index 1 is the null)
    mlf,     \* model index -> the model's _lf
    th,      \* the hypothesis test in progress: position, locals, return value
    trace,   \* the events of the hypothesis test in progress
    boot,    \* the bootstrap object and its run in progress
    fitters, \* callers of fit on one model (index 1): the tree it was made
             \* with, the calls started, and each caller's position and locals
    split,   \* a fit of a model made with split_codons: position and locals
    scorer,  \* an ML tree evaluator and the call of its scorer in progress
    natsel,  \* the arguments and the outcome of a natsel_* constructor
    lfrules, \* a model, and the likelihood function _configure_lf sets up for it
    optfit,  \* a model with optimiser options, and what its fits did to the
             \* likelihood functions they built
    sel      \* a natsel_zhang or natsel_sitehet test and the calls made of it

vars == << hypo, mtree, mlf, th, trace, boot, fitters, split, scorer, natsel, lfrules, optfit, sel >>

Models == 1..(MaxAlts + 1)

(***************************************************************************)
(* hypothesis                                                              *)
(***************************************************************************)

\* NotCompleted("ERROR", self, msg, source=aln)
NotCompleted(message, source) ==
    [kind |-> "NotCompleted", type |-> "ERROR", message |-> message, source |-> source]

NullMsg(aln) == << "Hypothesis null had bounds error", aln.source >>

AltMsg(aln) == << "Hypothesis alt had bounds error", aln.source >>

\* NamesUnique comparing the null's name with each alternate's only.
NamesUniqueNullOnly(names) ==
    \A i \in 2..Len(names) : names[i] # names[1]

\* hypothesis.__init__: the set of the alternates' names plus the null's name
\* must have one element per model.
NamesUnique(names) ==
    Cardinality({names[i] : i \in 1..Len(names)}) = (Len(names) - 1) + 1

\* AfterNull with the null's bounds error ignored: the alternates are fitted.
AfterNullGoesOn(exc, aln) ==
    CASE exc \in {"ValueError", "none"} -> [pc |-> "init", ret |-> None]
      [] OTHER                          -> [pc |-> "done", ret |-> Raised(exc)]

\* test_hypothesis after self.null(aln): a bounds error ends the test with
\* NotCompleted, any other exception reaches the caller, success goes on.
AfterNull(exc, aln) ==
    CASE exc = "ValueError" -> [pc |-> "done", ret |-> NotCompleted(NullMsg(aln), aln)]
      [] exc = "none"       -> [pc |-> "init", ret |-> None]
      [] OTHER              -> [pc |-> "done", ret |-> Raised(exc)]

\* AfterAlt without the except clause: the alternate's bounds error escapes.
AfterAltRaises(exc, aln) ==
    CASE exc = "none" -> [pc |-> "alts", ret |-> None]
      [] OTHER        -> [pc |-> "done", ret |-> Raised(exc)]

\* test_hypothesis after one alt(aln, initialise=init_func) of the loop in
\* _initialised_alt_from_null.
AfterAlt(exc, aln) ==
    CASE exc = "ValueError" -> [pc |-> "done", ret |-> NotCompleted(AltMsg(aln), aln)]
      [] exc = "none"       -> [pc |-> "alts", ret |-> None]
      [] OTHER              -> [pc |-> "done", ret |-> Raised(exc)]

\* if callable(self._init_alt): init_func = self._init_alt(null) else init
InitFunc(init_alt) == IF init_alt = "custom" THEN "custom" ELSE "default"

\* results = {alt.name: alt ...}; results.update({null.name: null});
\* hypothesis_result(name_of_null=null.name, source=aln.info.source)
HypothesisResult(null, alts, aln) ==
    LET keys == {alts[i].name : i \in 1..Len(alts)} \cup {null.name}
        last(n) == CHOOSE i \in 1..Len(alts) :
                      /\ alts[i].name = n
                      /\ \A j \in (i + 1)..Len(alts) : alts[j].name # n
    IN  [kind |-> "hypothesis_result",
         name_of_null |-> null.name,
         source |-> aln.source,
         entries |-> [n \in keys |-> IF n = null.name THEN null ELSE alts[last(n)]]]

IdleTest ==
    [pc |-> "idle", aln |-> None, caller |-> "-", null |-> None,
     alts |-> << >>, k |-> 0, init |-> "-", ret |-> None]

\* The start of a call hyp(aln) made by caller.
StartTest(aln, caller) == [IdleTest EXCEPT !.pc = "null", !.aln = aln, !.caller = caller]

IdleBoot ==
    [pc |-> "none", num_reps |-> 0, aln |-> None, rep |-> 0, null |-> None,
     inpath |-> None, mapped |-> << >>, observed |-> None, null_dist |-> << >>,
     ret |-> None]

\* The names n models can be given, up to renaming: the i-th model is named by
\* one of the first i names.
NameChoices(n) ==
    {[i \in 1..n |-> ModelNames[c[i]]] : c \in {d \in [1..n -> 1..n] : \A i \in 1..n : d[i] <= i}}

\* hypothesis(null, *alternates, init_alt=...) on models made with the given
\* tree; *alternates may be empty.
Construct ==
    /\ hypo.state = "none"
    /\ \E n \in 0..MaxAlts, init_alt \in {"none", "custom"}, tree \in {None, GivenTree} :
         \E names \in NameChoices(n + 1) :
            /\ hypo' = [state |-> IF NamesUnique(names) THEN "ok" ELSE "ValueError",
                        names |-> names, init_alt |-> init_alt]
            /\ mtree' = [m \in Models |-> tree]
    /\ UNCHANGED << mlf, th, trace, boot, fitters, split, scorer, natsel, lfrules, optfit, sel >>

\* A caller applies the hypothesis to an alignment.
CallHypothesis ==
    /\ hypo.state = "ok"
    /\ th.pc = "idle"
    /\ boot.pc = "none"
    /\ \E aln \in Alns : th' = StartTest(aln, "user")
    /\ trace' = << >>
    /\ UNCHANGED << hypo, mtree, mlf, boot, fitters, split, scorer, natsel, lfrules, optfit, sel >>

\* test_hypothesis: null = self.null(aln) and its except clause.  Calling a
\* model runs model.fit and lets its exceptions out, which is what the
\* try/except ValueError around the call is written for.
HypNull ==
    /\ th.pc = "null"
    /\ \E o \in Outcomes :
         LET r == Fit(1, hypo.names[1], mtree[1], mlf[1], th.aln, "none", TRUE, o)
             a == AfterNull(r.exc, th.aln)
         IN  /\ mtree' = [mtree EXCEPT ![1] = r.tree]
             /\ mlf' = [mlf EXCEPT ![1] = r.lf]
             /\ trace' = trace \o r.events
             /\ th' = [th EXCEPT !.pc = a.pc, !.ret = a.ret, !.null = r.result]
    /\ UNCHANGED << hypo, boot, fitters, split, scorer, natsel, lfrules, optfit, sel >>

\* _initialised_alt_from_null: the choice of init_func.
HypInitFunc ==
    /\ th.pc = "init"
    /\ th' = [th EXCEPT !.pc = "alts", !.init = InitFunc(hypo.init_alt), !.k = 1]
    /\ UNCHANGED << hypo, mtree, mlf, trace, boot, fitters, split, scorer, natsel, lfrules, optfit, sel >>

\* _initialised_alt_from_null: one turn of the loop over self._alts.
HypAlt ==
    /\ th.pc = "alts"
    /\ th.k <= Len(hypo.names) - 1
    /\ \E o \in Outcomes :
         LET m == th.k + 1
             r == Fit(m, hypo.names[m], mtree[m], mlf[m], th.aln, th.init, TRUE, o)
             a == AfterAlt(r.exc, th.aln)
         IN  /\ mtree' = [mtree EXCEPT ![m] = r.tree]
             /\ mlf' = [mlf EXCEPT ![m] = r.lf]
             /\ trace' = trace \o r.events
             /\ th' = [th EXCEPT !.pc = a.pc, !.ret = a.ret, !.k = th.k + 1,
                                 !.alts = IF r.exc = "none"
                                          THEN Append(th.alts, r.result) ELSE th.alts]
    /\ UNCHANGED << hypo, boot, fitters, split, scorer, natsel, lfrules, optfit, sel >>

\* test_hypothesis: all alternates fitted, the hypothesis_result is returned.
HypPackage ==
    /\ th.pc = "alts"
    /\ th.k > Len(hypo.names) - 1
    /\ th' = [th EXCEPT !.pc = "done",
                        !.ret = HypothesisResult(th.null, th.alts, th.aln)]
    /\ UNCHANGED << hypo, mtree, mlf, trace, boot, fitters, split, scorer, natsel, lfrules, optfit, sel >>

(***************************************************************************)
(* bootstrap                                                               *)
(***************************************************************************)

\* The truth value Python gives a result: None and NotCompleted are false, a
\* hypothesis_result (a non-empty mapping) is true.
Truthy(v) == v.kind \notin {"None", "NotCompleted"}

\* obs.null: the null's model_result of a hypothesis_result.
NullOf(obs) == obs.entries[obs.name_of_null]

\* _fit_sim: sim_aln = self._null.simulate_alignment() with its source renamed.
SimulateAlignment(null, inpath, rep_num) ==
    [kind |-> "aln", source |-> Source(inpath.path, rep_num), names |-> null.lf.aln.names]

\* _fit_sim: the try around self._hyp(sim_aln); a ValueError gives None.
FitSimResult(ret) ==
    IF ret.kind = "Raised" /\ ret.exc = "ValueError" THEN None ELSE ret

\* run: sym_results = [r for r in parallel.imap(...) if r]
SymResults(mapped) == SelectSeq(mapped, Truthy)

\* AddAllToNull leaving the loop after the first replicate.
AddFirstToNull(null_dist, sym_results) ==
    LET kept == SelectSeq(sym_results, Truthy) IN
    null_dist \o (IF kept = << >> THEN << >> ELSE << kept[1] >>)

\* run: the loop "for sym_result in sym_results: if not sym_result: continue;
\* result.add_to_null(sym_result)".
AddAllToNull(null_dist, sym_results) ==
    null_dist \o SelectSeq(sym_results, Truthy)

\* RunObserved without "result.observed = obs".
RunObservedNotStored(b, obs) ==
    CASE obs.kind = "Raised" -> [b EXCEPT !.pc = "done", !.ret = obs]
      [] obs.kind = "hypothesis_result" ->
            [b EXCEPT !.pc = "reps", !.null = NullOf(obs), !.inpath = b.aln.source]
      [] OTHER -> [b EXCEPT !.pc = "done", !.ret = Raised("AttributeError")]

\* run, from obs = self._hyp(aln) to self._inpath = aln.info.source.
RunObserved(b, obs) ==
    CASE obs.kind = "Raised" /\ obs.exc = "ValueError" ->
            [b EXCEPT !.pc = "done",
                      !.ret = [kind |-> "NotCompleted", type |-> "ERROR",
                               message |-> "err.args[0]", source |-> None]]
      [] obs.kind = "Raised" ->
            [b EXCEPT !.pc = "done", !.ret = obs]
      [] obs.kind = "hypothesis_result" ->
            [b EXCEPT !.pc = "reps", !.observed = obs, !.null = NullOf(obs),
                      !.inpath = b.aln.source]
      [] OTHER ->
            \* result.observed = obs, then obs.null on a NotCompleted
            [b EXCEPT !.pc = "done", !.observed = obs,
                      !.ret = Raised("AttributeError")]

\* bootstrap_result(aln.info.source) as returned by run.
BootstrapResult(b, null_dist) ==
    [kind |-> "bootstrap_result", source |-> b.aln.source,
     observed |-> b.observed, null_dist |-> null_dist]

\* bootstrap(hyp, num_reps)
MakeBootstrap ==
    /\ hypo.state = "ok"
    /\ boot.pc = "none"
    /\ th.pc = "idle"
    /\ \E n \in 0..MaxReps : boot' = [boot EXCEPT !.pc = "idle", !.num_reps = n]
    /\ UNCHANGED << hypo, mtree, mlf, th, trace, fitters, split, scorer, natsel, lfrules, optfit, sel >>

\* run(aln), up to the call obs = self._hyp(aln).
BootRun ==
    /\ boot.pc = "idle"
    /\ th.pc = "idle"
    /\ \E aln \in Alns :
         /\ boot' = [IdleBoot EXCEPT !.pc = "obs", !.num_reps = boot.num_reps,
                                     !.aln = aln]
         /\ th' = StartTest(aln, "run")
    /\ trace' = << >>
    /\ UNCHANGED << hypo, mtree, mlf, fitters, split, scorer, natsel, lfrules, optfit, sel >>

\* run, once the observed hypothesis test has returned.
BootObserved ==
    /\ boot.pc = "obs"
    /\ th.pc = "done"
    /\ boot' = RunObserved(boot, th.ret)
    /\ UNCHANGED << hypo, mtree, mlf, th, trace, fitters, split, scorer, natsel, lfrules, optfit, sel >>

\* _fit_sim(rep_num), up to the call self._hyp(sim_aln).
BootFitSim ==
    /\ boot.pc = "reps"
    /\ boot.rep < boot.num_reps
    /\ th' = StartTest(SimulateAlignment(boot.null, boot.inpath, boot.rep), "fit_sim")
    /\ trace' = << >>
    /\ boot' = [boot EXCEPT !.pc = "sim"]
    /\ UNCHANGED << hypo, mtree, mlf, fitters, split, scorer, natsel, lfrules, optfit, sel >>

\* _fit_sim(rep_num), once the replicate's hypothesis test has returned.
BootFitSimDone ==
    /\ boot.pc = "sim"
    /\ th.pc = "done"
    /\ LET r == FitSimResult(th.ret) IN
         boot' = IF r.kind = "Raised"
                 THEN [boot EXCEPT !.pc = "done", !.ret = r]
                 ELSE [boot EXCEPT !.pc = "reps", !.rep = boot.rep + 1,
                                   !.mapped = Append(boot.mapped, r)]
    /\ UNCHANGED << hypo, mtree, mlf, th, trace, fitters, split, scorer, natsel, lfrules, optfit, sel >>

\* run, after the last replicate: the null distribution is filled and returned.
BootFinish ==
    /\ boot.pc = "reps"
    /\ boot.rep = boot.num_reps
    /\ LET nd == AddAllToNull(boot.null_dist, SymResults(boot.mapped)) IN
         boot' = [boot EXCEPT !.pc = "done", !.null_dist = nd,
                              !.ret = BootstrapResult(boot, nd)]
    /\ UNCHANGED << hypo, mtree, mlf, th, trace, fitters, split, scorer, natsel, lfrules, optfit, sel >>

(***************************************************************************)
(* Callers of model.fit on one model object, step by step.                 *)
(***************************************************************************)

IdleFitter ==
    [pc |-> "idle", aln |-> None, construct |-> TRUE, used |-> None, ret |-> None]

NoFitters == [tree0 |-> None, n |-> 0, workers |-> {}, w |-> [t \in 1..NumWorkers |-> IdleFitter]]

\* fit(aln, construct=...), up to the call of _fit_aln: the tree guard. A
\* caller passes construct=False only once a likelihood function was built.
FitCall ==
    \E t \in fitters.workers, aln \in Alns, construct \in BOOLEAN :
        /\ fitters.w[t].pc \in {"idle", "done"}
        /\ fitters.n < MaxFits
        /\ ~construct => mlf[1] # None
        /\ LET g  == FitTree(mtree[1], aln)
               me == [IdleFitter EXCEPT !.aln = aln, !.construct = construct]
           IN  /\ mtree' = [mtree EXCEPT ![1] = g.tree]
               /\ fitters' =
                     [fitters EXCEPT
                        !.n = fitters.n + 1,
                        !.w[t] = IF g.exc # "none"
                                 THEN [me EXCEPT !.pc = "done", !.ret = Raised(g.exc)]
                                 ELSE [me EXCEPT !.pc = IF construct THEN "configure"
                                                                      ELSE "optimise"]]
        /\ UNCHANGED << hypo, mlf, th, trace, boot, split, scorer, natsel, lfrules, optfit, sel >>

\* _fit_aln: self._configure_lf(aln=aln, ...), which ends with self._lf = lf.
FitConfigure ==
    \E t \in fitters.workers, o \in Outcomes :
        /\ fitters.w[t].pc = "configure"
        /\ LET c == ConfigureLf(mtree[1], fitters.w[t].aln, "none", o) IN
              /\ mlf' = IF c.exc = "none" THEN [mlf EXCEPT ![1] = c.lf] ELSE mlf
              /\ fitters' =
                    [fitters EXCEPT
                       !.w[t] = IF c.exc # "none"
                                THEN [@ EXCEPT !.pc = "done", !.used = mtree[1],
                                               !.ret = Raised(c.exc)]
                                ELSE [@ EXCEPT !.pc = "optimise", !.used = mtree[1]]]
        /\ UNCHANGED << hypo, mtree, th, trace, boot, split, scorer, natsel, lfrules, optfit, sel >>

\* _fit_aln from lf = self._lf to return lf, and fit's result[self.name] = lf.
FitOptimise ==
    \E t \in fitters.workers, o \in Outcomes :
        /\ fitters.w[t].pc = "optimise"
        /\ LET f == FitAln(mlf[1], o) IN
              /\ mlf' = [mlf EXCEPT ![1] = f.lf]
              /\ fitters' =
                    [fitters EXCEPT
                       !.w[t] = [@ EXCEPT
                                   !.pc = "done",
                                   !.ret = IF f.exc # "none" THEN Raised(f.exc)
                                           ELSE ModelResult(ModelNames[1],
                                                            fitters.w[t].aln, f.lf)]]
        /\ UNCHANGED << hypo, mtree, th, trace, boot, split, scorer, natsel, lfrules, optfit, sel >>

Init ==
    /\ hypo = [state |-> "none", names |-> << >>, init_alt |-> "none"]
    /\ mtree = [m \in Models |-> None]
    /\ mlf = [m \in Models |-> None]
    /\ th = IdleTest
    /\ trace = << >>
    /\ boot = IdleBoot
    /\ fitters = NoFitters
    /\ split = None
    /\ scorer = None
    /\ natsel = None
    /\ optfit = None
    /\ sel = None
    /\ lfrules = None

\* One model, made with or without a tree, and the callers of its fit.
InitFitters(workers) ==
    /\ hypo = [state |-> "none", names |-> << >>, init_alt |-> "none"]
    /\ \E tree \in {None, GivenTree} :
          /\ mtree = [m \in Models |-> tree]
          /\ fitters = [NoFitters EXCEPT !.tree0 = tree, !.workers = workers]
    /\ mlf = [m \in Models |-> None]
    /\ th = IdleTest
    /\ trace = << >>
    /\ boot = IdleBoot
    /\ split = None
    /\ scorer = None
    /\ natsel = None
    /\ optfit = None
    /\ sel = None
    /\ lfrules = None

\* One caller: fits follow one another.
InitFit == InitFitters({1})

\* Several callers: fits of the same model run concurrently.
InitConc == InitFitters(1..NumWorkers)

NextFit ==
    \/ FitCall
    \/ FitConfigure
    \/ FitOptimise

SpecFit == InitFit /\ [][NextFit]_vars

SpecConc == InitConc /\ [][NextFit]_vars

Next ==
    \/ Construct
    \/ CallHypothesis
    \/ HypNull
    \/ HypInitFunc
    \/ HypAlt
    \/ HypPackage
    \/ MakeBootstrap
    \/ BootRun
    \/ BootObserved
    \/ BootFitSim
    \/ BootFitSimDone
    \/ BootFinish

Spec == Init /\ [][Next]_vars

(***************************************************************************)
(* Properties of hypothesis and bootstrap, checked under Spec.             *)
(***************************************************************************)

TraceIdx == 1..Len(trace)

\* The model whose optimisation ended with a bounds error, if any.
BoundsErrorAt(m) ==
    \E i \in TraceIdx : trace[i] = Event("optimise", m, "ValueError")

\* C1: in a hypothesis test every event of an alternate (its fit starting, its
\* initialise callback, its optimisation) comes after the end of the null's
\* fit, and after a bounds error of the null the test is over and there is no
\* event of an alternate at all.
C1_NullBeforeAlternates ==
    /\ \A i \in TraceIdx :
          trace[i].m # 1 =>
             \E j \in 1..(i - 1) : trace[j].ev = "fit_end" /\ trace[j].m = 1
    /\ (\E j \in TraceIdx : trace[j] = Event("fit_end", 1, "ValueError"))
          => /\ th.pc = "done"
             /\ \A i \in TraceIdx : trace[i].m = 1

\* C1 witness: an alternate was warm-started and fitted after the null.
C1_Witness ==
    /\ th.pc = "done"
    /\ \E i \in TraceIdx : trace[i] = Event("initialise", 2, "copied")
    /\ \E i \in TraceIdx : trace[i] = Event("fit_end", 2, "none")

\* C2: a hypothesis test in which a fit (the null's, the first or a later
\* alternate's) ended with a bounds error returns NotCompleted, not an
\* exception and not a hypothesis_result, with the alignment as source and a
\* message that tells a failed null from a failed alternate.
C2_BoundsErrorIsNotCompleted ==
    (th.pc = "done" /\ \E m \in Models : BoundsErrorAt(m)) =>
        /\ th.ret.kind = "NotCompleted"
        /\ th.ret.source = th.aln
        /\ th.ret.message = IF BoundsErrorAt(1) THEN NullMsg(th.aln) ELSE AltMsg(th.aln)
        /\ NullMsg(th.aln) # AltMsg(th.aln)

\* C2 witness: the second alternate's fit ended with a bounds error.
C2_Witness ==
    /\ th.pc = "done"
    /\ BoundsErrorAt(3)
    /\ th.ret.kind = "NotCompleted"

PairwiseDistinct(names) ==
    \A i, j \in 1..Len(names) : i # j => names[i] # names[j]

\* C3: constructing a hypothesis fails exactly when the names of the null and
\* the alternates are not pairwise distinct, and a failed construction has
\* fitted nothing.
C3_DuplicateNamesRejected ==
    hypo.state # "none" =>
        /\ (hypo.state = "ValueError") <=> ~PairwiseDistinct(hypo.names)
        /\ hypo.state = "ValueError" =>
              /\ trace = << >>
              /\ th.pc = "idle"
              /\ \A m \in Models : mlf[m] = None

\* C3 witness: two alternates share a name that is not the null's.
C3_Witness ==
    /\ hypo.state = "ValueError"
    /\ Len(hypo.names) = 3
    /\ hypo.names[2] = hypo.names[3]
    /\ hypo.names[1] # hypo.names[2]

\* C4: with the default initialiser a failed copy of the null's values is
\* swallowed: the alternate's optimisation follows it at once, only an
\* optimiser's bounds error makes the test NotCompleted, and when every
\* optimisation succeeds the test returns a hypothesis_result holding every
\* alternate's optimised likelihood function.
C4_WarmStartFailureSwallowed ==
    (th.init = "default") =>
        /\ \A i \in TraceIdx :
              (trace[i].ev = "initialise" /\ trace[i].exc = "swallowed") =>
                  /\ i < Len(trace)
                  /\ trace[i + 1].ev = "optimise"
                  /\ trace[i + 1].m = trace[i].m
        /\ (th.pc = "done" /\ th.ret.kind = "NotCompleted") =>
              \E m \in Models : BoundsErrorAt(m)
        /\ (th.pc = "done" /\ \A i \in TraceIdx : trace[i].exc \in {"-", "none", "copied", "swallowed"}) =>
              /\ th.ret.kind = "hypothesis_result"
              /\ \A k \in 2..Len(hypo.names) :
                    /\ hypo.names[k] \in DOMAIN th.ret.entries
                    /\ th.ret.entries[hypo.names[k]].lf.optimised

\* C4 witness: a completed test in which an alternate's warm start failed.
C4_Witness ==
    /\ th.pc = "done"
    /\ th.ret.kind = "hypothesis_result"
    /\ \E i \in TraceIdx : trace[i] = Event("initialise", 2, "swallowed")

\* C5: when the observed hypothesis test of bootstrap.run is not completed,
\* run returns NotCompleted and no replicate is simulated or fitted.
C5_FailedObservedReturnsNotCompleted ==
    (boot.pc = "done" /\ boot.observed.kind = "NotCompleted") =>
        /\ boot.ret.kind = "NotCompleted"
        /\ boot.mapped = << >>

\* The replicates whose hypothesis test completed.
CompletedReps == {i \in 1..Len(boot.mapped) : boot.mapped[i].kind = "hypothesis_result"}

\* C6: after a successful observed fit, run fails only when a replicate's
\* hypothesis test raised; otherwise it returns a bootstrap_result whose null
\* distribution holds one hypothesis_result per completed replicate and
\* nothing else, with every replicate run exactly once.
C6_FailedReplicatesDropped ==
    (boot.pc = "done" /\ boot.observed.kind = "hypothesis_result") =>
        /\ boot.ret.kind = "Raised" => (th.caller = "fit_sim" /\ th.ret = boot.ret)
        /\ boot.ret.kind # "Raised" =>
              /\ boot.ret.kind = "bootstrap_result"
              /\ Len(boot.mapped) = boot.num_reps
              /\ Len(boot.ret.null_dist) = Cardinality(CompletedReps)
              /\ Len(boot.ret.null_dist) <= boot.num_reps
              /\ \A i \in 1..Len(boot.ret.null_dist) :
                    boot.ret.null_dist[i].kind = "hypothesis_result"

\* C6 witness: a run of two replicates or more, one failed and dropped, the
\* others kept.
C6_Witness ==
    /\ boot.pc = "done"
    /\ boot.ret.kind = "bootstrap_result"
    /\ \E i \in 1..Len(boot.mapped) : boot.mapped[i].kind = "NotCompleted"
    /\ Len(boot.ret.null_dist) >= 1

\* C7: a run with num_reps = 0 whose observed test completed returns a
\* bootstrap_result with an empty null distribution whose observed field is
\* the value the hypothesis returned for the run's alignment.
C7_ZeroReplicates ==
    (boot.pc = "done" /\ boot.num_reps = 0 /\ th.ret.kind = "hypothesis_result") =>
        /\ boot.ret.kind = "bootstrap_result"
        /\ boot.ret.null_dist = << >>
        /\ th.aln = boot.aln
        /\ boot.ret.observed = th.ret
        /\ boot.ret.observed.source = boot.aln.source

\* C7 witness: a finished run of zero replicates.
C7_Witness ==
    /\ boot.pc = "done"
    /\ boot.num_reps = 0
    /\ boot.ret.kind = "bootstrap_result"

\* C18: a hypothesis_result returned by test_hypothesis has the null's entry
\* and one entry for each configured alternate, at least one, under names
\* that are all different, and every entry is a fit of the alignment of the
\* call.
C18_OneNullSomeAlternates ==
    (th.pc = "done" /\ th.ret.kind = "hypothesis_result") =>
        /\ th.ret.name_of_null \in DOMAIN th.ret.entries
        /\ th.ret.name_of_null = hypo.names[1]
        /\ DOMAIN th.ret.entries = {hypo.names[i] : i \in 1..Len(hypo.names)}
        /\ Cardinality(DOMAIN th.ret.entries) = Len(hypo.names)
        /\ Cardinality(DOMAIN th.ret.entries \ {th.ret.name_of_null}) >= 1
        /\ \A n \in DOMAIN th.ret.entries :
              /\ th.ret.entries[n].name = n
              /\ th.ret.entries[n].source = th.aln.source
              /\ th.ret.entries[n].lf.aln = th.aln

(***************************************************************************)
(* Properties of model.fit, checked under SpecFit and SpecConc.            *)
(***************************************************************************)

Finished(t) == fitters.w[t].pc = "done"

\* C8: among fits of alignments of the sequences the model's tree has (as the
\* replicates of a bootstrap are), a fit that constructs its likelihood
\* function returns in its result the likelihood function bound to the
\* alignment of that same fit, whatever the interleaving with other fits of
\* the same model.
C8_FitReturnsItsOwnLf ==
    \A t \in fitters.workers :
        (/\ Finished(t)
         /\ fitters.w[t].construct
         /\ fitters.w[t].ret.kind = "model_result"
         /\ fitters.w[t].aln.names = fitters.w[t].used.tips
         /\ fitters.w[t].ret.lf.aln.names = fitters.w[t].used.tips) =>
            fitters.w[t].ret.lf.aln = fitters.w[t].aln

\* C9: on a model made with tree=None, a fit of an alignment that does not
\* have exactly three sequences ends with an error.
C9_NoTreeNeedsThreeSequences ==
    \A t \in fitters.workers :
        (fitters.tree0 = None /\ Finished(t) /\ Cardinality(fitters.w[t].aln.names) # 3) =>
            fitters.w[t].ret.kind = "Raised"

\* C10: on a model made with tree=None, the tree a fit builds its likelihood
\* function on is the star over the names of the alignment given to that fit.
C10_StarOverOwnNames ==
    \A t \in fitters.workers :
        (fitters.tree0 = None /\ fitters.w[t].used # None
            /\ Cardinality(fitters.w[t].aln.names) = 3) =>
            fitters.w[t].used = StarTree(fitters.w[t].aln.names)

(***************************************************************************)
(* model.fit with split_codons: the three frames of an alignment.          *)
(***************************************************************************)

\* Every variable of the hypothesis, bootstrap and fit-caller machinery at
\* its initial value.
Untouched ==
    /\ hypo = [state |-> "none", names |-> << >>, init_alt |-> "none"]
    /\ mtree = [m \in Models |-> None]
    /\ mlf = [m \in Models |-> None]
    /\ th = IdleTest
    /\ trace = << >>
    /\ boot = IdleBoot
    /\ fitters = NoFitters

\* The lengths of the alignments offered to a split fit: shorter than a frame's
\* offset, not a multiple of three, and the nine columns of three codons.
SiteCounts == {0, 1, 2, 5, 9}

\* An alignment of n columns over the sequences a, b, c; a column is known by
\* its index, counted from 0.
AlnOfLength(n) ==
    [kind |-> "aln", source |-> Source(n, -1), names |-> {"a", "b", "c"},
     cols |-> [k \in 1..n |-> k - 1]]

\* seq[i::3] for i in 0, 1, 2.
Slice3(seq, i) ==
    IF Len(seq) <= i THEN << >>
    ELSE [k \in 1..((Len(seq) - i + 2) \div 3) |-> seq[i + 3 * (k - 1) + 1]]

\* The slice taken from the frame's index onwards in steps of two.
CodonPosStepTwo(aln, i) ==
    [aln EXCEPT !.cols = IF Len(aln.cols) <= i THEN << >>
                         ELSE [k \in 1..((Len(aln.cols) - i + 1) \div 2) |->
                                  aln.cols[i + 2 * (k - 1) + 1]]]

\* codon_pos = aln[i::3]
CodonPos(aln, i) == [aln EXCEPT !.cols = Slice3(aln.cols, i)]

\* The calculators lf.optimise(return_calculator=True) can return.
Calculators == [evaluations : 1..MaxEvals, elapsed_time : {1, 3}]

\* split_codons as model.__init__ stores it: a model whose motifs are longer
\* than one letter is never split.
SplitCodons(motif_len, split_codons) == IF motif_len > 1 THEN FALSE ELSE split_codons

\* _fit_aln's lf.calculator = calc and lf.set_name(f"LF id: {identifier}").
WithCalculator(lf, calc, identifier) ==
    [kind |-> "lf", tree |-> lf.tree, aln |-> lf.aln, optimised |-> lf.optimised,
     calculator |-> calc, name |-> identifier]

\* One call of _fit_aln on the model whose _lf is lf.
FitAlnCall(tree, lf, aln, identifier, construct, o, calc) ==
    LET c   == IF construct THEN ConfigureLf(tree, aln, "none", o)
                            ELSE [exc |-> "none", lf |-> None, note |-> "-"]
        lf1 == IF construct /\ c.exc = "none" THEN c.lf ELSE lf
        f   == FitAln(lf1, o)
    IN  IF c.exc # "none" THEN [exc |-> c.exc, lf |-> lf]
        ELSE IF f.exc # "none" THEN [exc |-> f.exc, lf |-> lf1]
        ELSE [exc |-> "none", lf |-> WithCalculator(f.lf, calc, identifier)]

IdleSplit ==
    [pc |-> "idle", split_codons |-> FALSE, lf |-> None, n |-> 0, aln |-> None,
     construct |-> TRUE, i |-> 0, entries |-> << >>, keys |-> << >>,
     num_evals |-> 0, elapsed_time |-> 0, ret |-> None]

\* fit(aln, construct=...) on a model with a tree: the result is created and
\* the sums start at 0.
SplitCall ==
    /\ split.pc \in {"idle", "done"}
    /\ split.n < MaxSplitFits
    /\ \E n \in SiteCounts, construct \in BOOLEAN :
          /\ ~construct => split.lf # None
          /\ split' = [split EXCEPT !.pc = IF split.split_codons THEN "frames" ELSE "whole",
                                    !.n = @ + 1, !.aln = AlnOfLength(n),
                                    !.construct = construct, !.i = 0,
                                    !.entries = << >>, !.keys = << >>,
                                    !.num_evals = 0, !.elapsed_time = 0, !.ret = None]
    /\ UNCHANGED << hypo, mtree, mlf, th, trace, boot, fitters, scorer, natsel, lfrules, optfit, sel >>

\* One round of the loop over range(3): the frame is cut out and fitted, its
\* lf stored under i + 1 and its counts added; after the third the result
\* gets the sums.
SplitFrame ==
    /\ split.pc = "frames"
    /\ \E o \in Outcomes, calc \in Calculators :
         LET i == split.i
             r == FitAlnCall(GivenTree, split.lf, CodonPos(split.aln, i),
                             i + 1, split.construct, o, calc)
         IN  IF r.exc # "none"
             THEN split' = [split EXCEPT !.pc = "done", !.lf = r.lf, !.ret = Raised(r.exc)]
             ELSE LET entries == Append(split.entries, r.lf)
                      keys    == Append(split.keys, i + 1)
                      evals   == split.num_evals + r.lf.calculator.evaluations
                      elapsed == split.elapsed_time + r.lf.calculator.elapsed_time
                  IN  split' =
                        [split EXCEPT
                           !.lf = r.lf, !.i = i + 1, !.entries = entries, !.keys = keys,
                           !.num_evals = evals, !.elapsed_time = elapsed,
                           !.pc = IF i + 1 = 3 THEN "done" ELSE "frames",
                           !.ret = IF i + 1 = 3
                                   THEN [kind |-> "model_result", source |-> split.aln.source,
                                         keys |-> keys, entries |-> entries,
                                         num_evaluations |-> evals,
                                         elapsed_time |-> elapsed]
                                   ELSE None]
    /\ UNCHANGED << hypo, mtree, mlf, th, trace, boot, fitters, scorer, natsel, lfrules, optfit, sel >>

\* The fit of a model that is not split: one lf, stored under the model's name.
SplitWhole ==
    /\ split.pc = "whole"
    /\ \E o \in Outcomes, calc \in Calculators :
         LET r == FitAlnCall(GivenTree, split.lf, split.aln, None, split.construct, o, calc)
         IN  IF r.exc # "none"
             THEN split' = [split EXCEPT !.pc = "done", !.lf = r.lf, !.ret = Raised(r.exc)]
             ELSE split' =
                    [split EXCEPT
                       !.pc = "done", !.lf = r.lf,
                       !.entries = << r.lf >>, !.keys = << ModelNames[1] >>,
                       !.num_evals = r.lf.calculator.evaluations,
                       !.elapsed_time = r.lf.calculator.elapsed_time,
                       !.ret = [kind |-> "model_result", source |-> split.aln.source,
                                keys |-> << ModelNames[1] >>, entries |-> << r.lf >>,
                                num_evaluations |-> r.lf.calculator.evaluations,
                                elapsed_time |-> r.lf.calculator.elapsed_time]]
    /\ UNCHANGED << hypo, mtree, mlf, th, trace, boot, fitters, scorer, natsel, lfrules, optfit, sel >>

\* A model made with a tree, of a nucleotide (motif length 1) or a codon
\* (motif length 3) substitution model, asked to split codons or not.
InitSplit ==
    /\ Untouched
    /\ \E motif_len \in {1, 3}, split_codons \in BOOLEAN :
          split = [IdleSplit EXCEPT !.split_codons = SplitCodons(motif_len, split_codons)]
    /\ scorer = None
    /\ natsel = None
    /\ optfit = None
    /\ sel = None
    /\ lfrules = None

NextSplit ==
    \/ SplitCall
    \/ SplitFrame
    \/ SplitWhole

SpecSplit == InitSplit /\ [][NextSplit]_vars

\* The columns of aln whose index is i modulo 3, in order.
FrameCols(aln, i) == SelectSeq(aln.cols, LAMBDA c : c % 3 = i)

RECURSIVE SumEvaluations(_)
SumEvaluations(lfs) ==
    IF lfs = << >> THEN 0
    ELSE Head(lfs).calculator.evaluations + SumEvaluations(Tail(lfs))

RECURSIVE SumElapsed(_)
SumElapsed(lfs) ==
    IF lfs = << >> THEN 0
    ELSE Head(lfs).calculator.elapsed_time + SumElapsed(Tail(lfs))

LogLiks == (0 - MaxCost)..0

\* The product left out: x itself.
NotNegated(x) == x

\* -1.0 * x: the negation of a float is exact.
Negated(x) == 0 - x

\* ML.__init__: with dists the WLS scorer estimates lengths; without, the
\* stand-in fake_wls returns (None, None).
WlsEval(dists, ancestry) ==
    IF dists # None
    THEN << 1, [kind |-> "lengths", from |-> "wls", ancestry |-> ancestry] >>
    ELSE << None, None >>

\* evaluate: init_lengths is the caller's lengths, or the estimator's.
InitLengths(dists, ancestry, lengths) ==
    IF lengths = None THEN WlsEval(dists, ancestry)[2] ELSE lengths

\* ancestry2tree(ancestry, init_lengths, names)
Ancestry2Tree(ancestry, init_lengths) ==
    [kind |-> "tree", ancestry |-> ancestry, lengths |-> init_lengths]

\* The length rule set whatever the caller passed.
PinLengthsAlways(lengths) == TRUE

\* evaluate: lf.set_param_rule('length', is_constant=True) is called when
\* lengths is not None.
PinLengths(lengths) == lengths # None

\* lf = self.lf_factory(tree); lf.set_alignment(subalign): a likelihood
\* function whose current log-likelihood is lnL.
ScorerLF(tree, lnL) ==
    [kind |-> "lf", tree |-> tree, length_constant |-> FALSE, lnL |-> lnL, optimise_calls |-> 0]

\* lf.optimise(...): one more call; the log-likelihood becomes lnL.
Optimised(lf, lnL) == [lf EXCEPT !.lnL = lnL, !.optimise_calls = @ + 1]

\* An evaluate that answers a bounds error with a second optimisation.
EvaluateEndRetry(lf, exc, lnL) ==
    LET lf1 == Optimised(lf, lnL)
        lf2 == IF exc = "none" THEN lf1 ELSE Optimised(lf1, lnL)
    IN  [lf |-> lf2, ret |-> [kind |-> "pair", err |-> Negated(lf2.lnL), tree |-> lf2.tree]]

\* evaluate from lf.optimise to return (err, tree): an exception of the
\* optimiser leaves evaluate; otherwise err = -1.0 * lf.get_log_likelihood().
EvaluateEnd(lf, exc, lnL) ==
    IF exc # "none"
    THEN [lf |-> [lf EXCEPT !.optimise_calls = @ + 1], ret |-> Raised(exc)]
    ELSE LET lf1 == Optimised(lf, lnL)
         IN  [lf |-> lf1,
              ret |-> [kind |-> "pair", err |-> Negated(lf1.lnL), tree |-> lf1.tree]]

\* result2output(err, ancestry, annotated_tree, names)
Result2Output(err, annotated_tree) ==
    [kind |-> "output", lnL |-> Negated(err), tree |-> annotated_tree]

Ancestries == {"ab_c", "a_bc"}

CallerLengths == [kind |-> "lengths", from |-> "caller", ancestry |-> "-"]

IdleScorer ==
    [pc |-> "idle", dists |-> None, op |-> "-", ancestry |-> "-", lengths |-> None,
     init_lengths |-> None, lf |-> None, ret |-> None, out |-> None]

\* evaluate(ancestry, lengths) up to tree = ancestry2tree(...).
Evaluate ==
    /\ scorer.pc = "idle"
    /\ \E ancestry \in Ancestries, lengths \in {None, CallerLengths} :
          scorer' = [scorer EXCEPT
                       !.pc = "tree", !.op = "evaluate", !.ancestry = ancestry,
                       !.lengths = lengths,
                       !.init_lengths = InitLengths(scorer.dists, ancestry, lengths)]
    /\ UNCHANGED << hypo, mtree, mlf, th, trace, boot, fitters, split, natsel, lfrules, optfit, sel >>

\* evaluate: the likelihood function is built on the tree and bound to the
\* alignment, and the length rule is set when lengths were passed.
EvaluateBuild ==
    /\ scorer.pc = "tree"
    /\ \E exc \in {"none", "ValueError"}, lnL \in LogLiks :
         IF exc # "none"
         THEN scorer' = [scorer EXCEPT !.pc = "done", !.ret = Raised(exc)]
         ELSE LET tree == Ancestry2Tree(scorer.ancestry, scorer.init_lengths)
                  lf   == ScorerLF(tree, lnL)
              IN  scorer' = [scorer EXCEPT
                               !.pc = "optimise",
                               !.lf = [lf EXCEPT !.length_constant = PinLengths(scorer.lengths)]]
    /\ UNCHANGED << hypo, mtree, mlf, th, trace, boot, fitters, split, natsel, lfrules, optfit, sel >>

\* evaluate: lf.optimise(...) and the pair returned. Optimising does not
\* lower the log-likelihood.
EvaluateOptimise ==
    /\ scorer.pc = "optimise"
    /\ \E exc \in {"none", "ValueError"}, lnL \in LogLiks :
          /\ lnL >= scorer.lf.lnL
          /\ LET e == EvaluateEnd(scorer.lf, exc, lnL)
             IN  scorer' = [scorer EXCEPT !.pc = "done", !.lf = e.lf, !.ret = e.ret]
    /\ UNCHANGED << hypo, mtree, mlf, th, trace, boot, fitters, split, natsel, lfrules, optfit, sel >>

\* The search hands the pair evaluate returned to result2output.
ToOutput ==
    /\ scorer.pc = "done"
    /\ scorer.ret.kind = "pair"
    /\ scorer.out = None
    /\ scorer' = [scorer EXCEPT !.out = Result2Output(scorer.ret.err, scorer.ret.tree)]
    /\ UNCHANGED << hypo, mtree, mlf, th, trace, boot, fitters, split, natsel, lfrules, optfit, sel >>

\* evaluateTree(tree): the likelihood function is built and bound, and its
\* log-likelihood returned as it is.
EvaluateTree ==
    /\ scorer.pc = "idle"
    /\ \E ancestry \in Ancestries, exc \in {"none", "ValueError"}, lnL \in LogLiks :
         IF exc # "none"
         THEN scorer' = [scorer EXCEPT !.pc = "done", !.op = "evaluateTree",
                                       !.ancestry = ancestry, !.ret = Raised(exc)]
         ELSE LET lf == ScorerLF(Ancestry2Tree(ancestry, CallerLengths), lnL)
              IN  scorer' = [scorer EXCEPT !.pc = "done", !.op = "evaluateTree",
                                           !.ancestry = ancestry, !.lf = lf,
                                           !.ret = [kind |-> "lnL", value |-> lf.lnL]]
    /\ UNCHANGED << hypo, mtree, mlf, th, trace, boot, fitters, split, natsel, lfrules, optfit, sel >>

\* ML(model, alignment, dists): made with a distance matrix or without.
InitML ==
    /\ Untouched
    /\ split = None
    /\ \E dists \in {None, [kind |-> "dists"]} : scorer = [IdleScorer EXCEPT !.dists = dists]
    /\ natsel = None
    /\ optfit = None
    /\ sel = None
    /\ lfrules = None

NextML ==
    \/ Evaluate
    \/ EvaluateBuild
    \/ EvaluateOptimise
    \/ ToOutput
    \/ EvaluateTree

SpecML == InitML /\ [][NextML]_vars

\* C12: the cost evaluate returns is the negative of the log-likelihood of
\* the optimised likelihood function; result2output of that cost is the
\* log-likelihood again; evaluateTree returns the log-likelihood itself, of a
\* likelihood function that was never optimised.
C12_CostIsNegativeLogLikelihood ==
    (scorer # None /\ scorer.pc = "done") =>
        /\ (scorer.op = "evaluate" /\ scorer.ret.kind = "pair") =>
              /\ scorer.ret.err + scorer.lf.lnL = 0
              /\ scorer.ret.err >= 0
              /\ scorer.out # None =>
                    /\ scorer.out.lnL = scorer.lf.lnL
                    /\ scorer.out.lnL + scorer.ret.err = 0
        /\ (scorer.op = "evaluateTree" /\ scorer.ret.kind = "lnL") =>
              /\ scorer.ret.value = scorer.lf.lnL
              /\ scorer.lf.optimise_calls = 0

\* C12 witness: a cost that is not zero was turned back into its
\* log-likelihood.
C12_Witness ==
    /\ scorer # None /\ scorer.pc = "done" /\ scorer.op = "evaluate"
    /\ scorer.out # None
    /\ scorer.ret.err > 0
    /\ scorer.out.lnL < 0

\* C13: once evaluate has built its likelihood function, the length
\* parameter is constant exactly when the caller passed lengths; when none
\* were passed the tree's lengths are the estimator's, which are None when
\* the evaluator was made without a distance matrix.
C13_LengthsPinnedIffSupplied ==
    (scorer # None /\ scorer.op = "evaluate" /\ scorer.lf # None) =>
        /\ scorer.lf.length_constant <=> (scorer.lengths # None)
        /\ scorer.lengths # None => scorer.lf.tree.lengths = scorer.lengths
        /\ scorer.lengths = None =>
              /\ scorer.dists = None => scorer.lf.tree.lengths = None
              /\ scorer.dists # None => scorer.lf.tree.lengths.from = "wls"

\* C13 witness: an evaluation without lengths by an evaluator without a
\* distance matrix went on to optimise with free lengths.
C13_Witness ==
    /\ scorer # None /\ scorer.op = "evaluate" /\ scorer.pc = "done"
    /\ scorer.ret.kind = "pair"
    /\ scorer.lengths = None /\ scorer.dists = None
    /\ ~scorer.lf.length_constant

\* C14: a finished evaluate has called the optimiser at most once, exactly
\* once when it returns a pair; when the optimiser raised, evaluate raised the
\* same exception and returned no pair.
C14_OneOptimiseNoRetry ==
    (scorer # None /\ scorer.op = "evaluate") =>
        /\ scorer.lf # None => scorer.lf.optimise_calls <= 1
        /\ (scorer.pc = "done" /\ scorer.ret.kind = "pair") => scorer.lf.optimise_calls = 1
        /\ (scorer.pc = "done" /\ scorer.ret.kind # "pair") =>
              /\ scorer.ret = Raised("ValueError")
              /\ scorer.out = None

\* C14 witness: the optimiser raised a bounds error and evaluate let it out.
C14_Witness ==
    /\ scorer # None /\ scorer.op = "evaluate" /\ scorer.pc = "done"
    /\ scorer.lf # None /\ scorer.lf.optimise_calls = 1
    /\ scorer.ret = Raised("ValueError")

(***************************************************************************)
(* The constructors of natsel_neutral, natsel_zhang, natsel_sitehet and    *)
(* natsel_timehet, and model.__init__ as they call it.  Numbers that are   *)
(* floats in the program are counted in units of epsilon = 1e-6.           *)
(***************************************************************************)
Epsilon == 1
One == 1000000
DefaultUpper == 50000000
UpperOmega == 20000000

\* dict.get(key, default) and a dict with one key set.
Get(d, key, default) == IF key \in DOMAIN d THEN d[key] ELSE default

WithKey(d, key, value) == [k \in DOMAIN d \cup {key} |-> IF k = key THEN value ELSE d[k]]

\* The substitution models a caller passes: by name or as an instance, a
\* codon model or a nucleotide one.
SubModels == [given : {"str", "instance"}, name : {"CNFGTR", "GN"}]

\* isinstance(sm, _Codon), after get_model(sm) when sm is a string.
IsCodonModel(sm) == sm.name = "CNFGTR"

\* The tree arguments a caller passes: None, the path of a tree file, a newick
\* string, a tree instance, an object that is not a tree, and an object that
\* is not a tree and is false in a condition (an empty list).
TreeArgs == {[kind |-> k] : k \in {"None", "path", "newick", "tree", "nontree", "empty"}}

\* The tree that the path, the newick string and the instance stand for:
\* ((Human,Chimp)HC,Gorilla,Rhesus)root, each node under its parent.
Parent ==
    [Human |-> "HC", Chimp |-> "HC", HC |-> "root", Gorilla |-> "root", Rhesus |-> "root"]

TipNames == {"Human", "Chimp", "Gorilla", "Rhesus"}

\* A tip argument that was not given (None).
NoTip == ""

\* The values of tip1 and tip2 a caller passes.
TipArgs == {NoTip, "Human", "Chimp", "Gorilla"}

\* load_tree(filename=tree) / make_tree(treestring=tree): a tree instance.
LoadTree(tree) == IF tree.kind \in {"path", "newick"} THEN [kind |-> "tree"] ELSE tree

\* The truth value of a tree argument in "if tree and ...".
TreeTruthy(tree) == tree.kind \notin {"None", "empty"}

\* if tree and not isinstance(tree, TreeNode): raise TypeError
TreeTypeError(tree) == TreeTruthy(tree) /\ tree.kind # "tree"

RECURSIVE AncestorsOrSelf(_)
AncestorsOrSelf(n) == IF n \in DOMAIN Parent THEN {n} \cup AncestorsOrSelf(Parent[n]) ELSE {n}

\* The last common ancestor of two tips.
Join(tip1, tip2) ==
    LET common == AncestorsOrSelf(tip1) \cap AncestorsOrSelf(tip2)
    IN  CHOOSE j \in common : common \subseteq AncestorsOrSelf(j)

\* The nodes below n.
Below(n) == {m \in DOMAIN Parent : m # n /\ n \in AncestorsOrSelf(m)}

\* tree.get_edge_names(tip1, tip2, stem=, clade=, outgroup_name=None): the
\* stem is the edge above the tips' last common ancestor, the clade the edges
\* below it.  The root has no stem: asking for it either raises or adds
\* nothing (atroot).
GetEdgeNames(tip1, tip2, stem, clade, atroot) ==
    LET j == Join(tip1, tip2) IN
    IF stem /\ j = "root" /\ atroot = "raise"
    THEN [exc |-> "TreeError", edges |-> {}]
    ELSE [exc |-> "none",
          edges |-> (IF stem /\ j # "root" THEN {j} ELSE {})
                    \cup (IF clade THEN Below(j) ELSE {})]

\* assert edges, "No edges"
AssertEdges(edges) == IF edges = {} THEN "AssertionError" ELSE "none"

\* The loop without its "continue": constant rules get the bound too.
RuleOnInitAll(rule) == WithKey(rule, "upper", Get(rule, "upper", DefaultUpper))

\* model.__init__, the loop over param_rules: a rule that is not constant
\* gets upper = 50 unless it has one.
RuleOnInit(rule) ==
    IF Get(rule, "is_constant", FALSE) THEN rule
    ELSE WithKey(rule, "upper", Get(rule, "upper", DefaultUpper))

\* model(sm, tree, name=, param_rules=, lf_args=) as the natsel constructors
\* call it: sm is an instance and tree was loaded and checked already.
ModelInit(name, tree, param_rules, bins) ==
    [kind |-> "model", name |-> name, tree |-> tree,
     param_rules |-> [i \in 1..Len(param_rules) |-> RuleOnInit(param_rules[i])],
     bins |-> bins]

\* The param_rules the constructor of class cls gives its null model.
NullParamRules(cls) ==
    CASE cls = "natsel_neutral" ->
           << [par_name |-> "omega", is_constant |-> TRUE, value |-> One] >>
      [] cls = "natsel_zhang" ->
           << [par_name |-> "omega", bins |-> "0", upper |-> One - Epsilon, init |-> One - Epsilon],
              [par_name |-> "omega", bins |-> "1", is_constant |-> TRUE, value |-> One] >>
      [] cls = "natsel_sitehet" ->
           << [par_name |-> "omega", bins |-> "-ve", upper |-> One - Epsilon, init |-> One - Epsilon],
              [par_name |-> "omega", bins |-> "neutral", is_constant |-> TRUE, value |-> One] >>
      [] OTHER -> << >>

\* lf_args["bins"] of the null model.
NullBins(cls) ==
    CASE cls = "natsel_zhang"   -> << "0", "1" >>
      [] cls = "natsel_sitehet" -> << "-ve", "neutral" >>
      [] OTHER                  -> << >>

\* The param_rules of the alternate model, for the classes that build it in
\* the constructor.
AltParamRules(cls, edges) ==
    IF cls = "natsel_timehet"
    THEN << [par_name |-> "omega", edges |-> edges, upper |-> UpperOmega,
             is_independent |-> FALSE] >>
    ELSE << >>

NatselClasses == {"natsel_neutral", "natsel_zhang", "natsel_sitehet", "natsel_timehet"}

\* The classes scoped to a clade: they take tip1, tip2, outgroup, stem, clade.
CladeScoped == {"natsel_zhang", "natsel_timehet"}

\* The classes whose constructor builds the alternate and the hypothesis;
\* the others build the alternate at each call.
BuildsAlt == {"natsel_neutral", "natsel_timehet"}

\* A check of the substitution model that rejects nothing.
RejectsNoModel(sm) == FALSE

\* if not is_codon_model(sm): raise ValueError
RejectsModel(sm) == ~IsCodonModel(sm)

\* What the tree decides when edges are resolved against it: what asking for
\* the stem of the root does, and the edges named when an outgroup is given.
EdgeOutcomes == [atroot : {"raise", "none"}, rerooted : SUBSET DOMAIN Parent]

\* The chain of branches with only the first tip kept when there is no tree.
ResolveEdgesFirstTip(tree, tip1, tip2, outgroup, stem, clade, e) ==
    IF tip1 # NoTip /\ tip2 # NoTip /\ TreeTruthy(tree)
    THEN IF outgroup # NoTip THEN [exc |-> "none", edges |-> e.rerooted]
         ELSE GetEdgeNames(tip1, tip2, stem, clade, e.atroot)
    ELSE [exc |-> "none", edges |-> IF tip1 # NoTip THEN {tip1} ELSE {tip2}]

\* The constructor's if / elif chain that sets edges.
ResolveEdges(tree, tip1, tip2, outgroup, stem, clade, e) ==
    IF tip1 # NoTip /\ tip2 # NoTip /\ TreeTruthy(tree)
    THEN IF outgroup # NoTip THEN [exc |-> "none", edges |-> e.rerooted]
         ELSE GetEdgeNames(tip1, tip2, stem, clade, e.atroot)
    ELSE IF tip1 # NoTip /\ tip2 # NoTip THEN [exc |-> "none", edges |-> {tip1, tip2}]
    ELSE IF tip1 # NoTip THEN [exc |-> "none", edges |-> {tip1}]
    ELSE [exc |-> "none", edges |-> {tip2}]

\* The constructor of class cls: the exception it ends with, the steps it
\* took, the tree after loading, the edges once resolved, and the models and
\* the hypothesis it built.
NatselInit(cls, sm, tree, tip1, tip2, outgroup, stem, clade, e) ==
    LET scoped == cls \in CladeScoped
        loaded == LoadTree(tree)
        res    == ResolveEdges(loaded, tip1, tip2, outgroup, stem, clade, e)
        edges  == IF scoped THEN res.edges ELSE {}
        null   == ModelInit(<< sm.name, "-null" >>, loaded, NullParamRules(cls), NullBins(cls))
        alt    == ModelInit(<< sm.name, "-alt" >>, loaded, AltParamRules(cls, edges), << >>)
        s1     == << "is_codon_model" >>
        s2     == s1 \o (IF scoped THEN << "tips" >> ELSE << >>)
        s3     == s2 \o (IF tree.kind \in {"path", "newick"} THEN << "load_tree" >> ELSE << >>)
                     \o << "tree_type" >>
        s4     == s3 \o (IF scoped THEN << "edges" >> ELSE << >>)
        s5     == s4 \o (IF sm.given = "str" THEN << "get_model" >> ELSE << >>)
                     \o << "model_null" >>
                     \o (IF cls \in BuildsAlt THEN << "model_alt", "hypothesis" >> ELSE << >>)
        fail(exc, steps, t, resolved) ==
            [exc |-> exc, steps |-> steps, tree |-> t, resolved |-> resolved,
             edges |-> IF resolved THEN edges ELSE {}, null |-> None, alt |-> None,
             hyp |-> "none"]
    IN  IF RejectsModel(sm) THEN fail("ValueError", s1, tree, FALSE)
        ELSE IF scoped /\ tip1 = NoTip /\ tip2 = NoTip THEN fail("ValueError", s2, tree, FALSE)
        ELSE IF TreeTypeError(loaded) THEN fail("TypeError", s3, loaded, FALSE)
        ELSE IF scoped /\ res.exc # "none" THEN fail(res.exc, s4, loaded, FALSE)
        ELSE IF scoped /\ AssertEdges(edges) # "none"
             THEN fail(AssertEdges(edges), s4, loaded, TRUE)
        ELSE [exc |-> "none", steps |-> s5, tree |-> loaded, resolved |-> scoped,
              edges |-> edges, null |-> null,
              alt |-> IF cls \in BuildsAlt THEN alt ELSE None,
              hyp |-> IF cls \in BuildsAlt
                      THEN (IF NamesUnique(<< null.name, alt.name >>) THEN "ok" ELSE "ValueError")
                      ELSE "none"]

\* A caller constructs one of the four tests.
MakeNatsel ==
    /\ natsel = None
    /\ \E cls \in NatselClasses, sm \in SubModels, tree \in TreeArgs,
          tip1 \in TipArgs, tip2 \in TipArgs,
          outgroup \in {NoTip, "Rhesus"}, stem \in BOOLEAN, clade \in BOOLEAN,
          e \in EdgeOutcomes :
          /\ cls \notin CladeScoped =>
                tip1 = NoTip /\ tip2 = NoTip /\ outgroup = NoTip /\ ~stem /\ clade
          /\ natsel' = [kind |-> "natsel", cls |-> cls, sm |-> sm, arg |-> tree,
                        tip1 |-> tip1, tip2 |-> tip2, outgroup |-> outgroup,
                        stem |-> stem, clade |-> clade,
                        r |-> NatselInit(cls, sm, tree, tip1, tip2, outgroup, stem, clade, e)]
    /\ UNCHANGED << hypo, mtree, mlf, th, trace, boot, fitters, split, scorer, lfrules, optfit, sel >>

InitNatsel ==
    /\ Untouched
    /\ split = None
    /\ scorer = None
    /\ natsel = None
    /\ optfit = None
    /\ sel = None
    /\ lfrules = None

NextNatsel == MakeNatsel

SpecNatsel == InitNatsel /\ [][NextNatsel]_vars

\* C15: each of the four constructors, given a substitution model that is
\* not a codon model, ends with ValueError having done nothing but check the
\* model: the tree was not loaded or type-checked and no model was built.
C15_NonCodonModelRejectedFirst ==
    (natsel # None /\ ~IsCodonModel(natsel.sm)) =>
        /\ natsel.r.exc = "ValueError"
        /\ natsel.r.steps = << "is_codon_model" >>
        /\ natsel.r.tree = natsel.arg
        /\ natsel.r.null = None /\ natsel.r.alt = None

\* C15 witness: natsel_sitehet was given a nucleotide model and an object
\* that is not a tree, and failed on the model.
C15_Witness ==
    /\ natsel # None /\ natsel.cls = "natsel_sitehet"
    /\ ~IsCodonModel(natsel.sm) /\ natsel.arg.kind = "nontree"
    /\ natsel.r.exc = "ValueError"

\* C16: the constructors of natsel_zhang and natsel_timehet fail, building no
\* model, when no tip is given, when the edges resolved are none, and when the
\* tree given is neither None nor (once loaded) a tree instance.
C16_ConfigurationErrorsAtConstruction ==
    (natsel # None /\ natsel.cls \in CladeScoped /\ IsCodonModel(natsel.sm)) =>
        ((\/ natsel.tip1 = NoTip /\ natsel.tip2 = NoTip
          \/ natsel.r.resolved /\ natsel.r.edges = {}
          \/ LoadTree(natsel.arg).kind \notin {"None", "tree"})
            => /\ natsel.r.exc # "none"
               /\ natsel.r.null = None /\ natsel.r.alt = None)

\* The edges the constructor resolved hold both tips.
HasBothTips == natsel.r.edges # {} /\ {natsel.tip1, natsel.tip2} \subseteq natsel.r.edges

\* A constructor given two tips and no outgroup completed.
ResolvedForTwoTips ==
    /\ natsel # None /\ natsel.cls \in CladeScoped
    /\ natsel.tip1 # NoTip /\ natsel.tip2 # NoTip /\ natsel.outgroup = NoTip
    /\ natsel.r.resolved /\ natsel.r.exc = "none"

C20_NeutralNullPinsOmega ==
    (natsel # None /\ natsel.cls = "natsel_neutral" /\ natsel.r.exc = "none") =>
        /\ Len(natsel.r.null.param_rules) = 1
        /\ DOMAIN natsel.r.null.param_rules[1] = {"par_name", "is_constant", "value"}
        /\ natsel.r.null.param_rules[1].par_name = "omega"
        /\ natsel.r.null.param_rules[1].is_constant
        /\ natsel.r.null.param_rules[1].value = One
        /\ natsel.r.alt.param_rules = << >>
        /\ natsel.r.null.name = << natsel.sm.name, "-null" >>
        /\ natsel.r.alt.name = << natsel.sm.name, "-alt" >>
        /\ natsel.r.null.name # natsel.r.alt.name
        /\ natsel.r.hyp = "ok"

\* C20 witness: a natsel_neutral constructed from a model's name and no tree.
C20_Witness ==
    /\ natsel # None /\ natsel.cls = "natsel_neutral" /\ natsel.r.exc = "none"
    /\ natsel.sm.given = "str" /\ natsel.arg = None
    /\ natsel.r.hyp = "ok"

(***************************************************************************)
(* model._configure_lf: the bounds given to the likelihood function's      *)
(* parameters.                                                             *)
(***************************************************************************)

\* The rules a likelihood function reports for its parameters: a rate, the
\* branch lengths and the motif probabilities, each with an upper bound of
\* its own or with none.
ReportedRules ==
    {[par_name |-> n] : n \in {"kappa", "length", "mprobs"}}
    \cup {[par_name |-> n, upper |-> 10 * One] : n \in {"kappa", "length", "mprobs"}}

\* The lists of rules of at most MaxRules parameters.
RuleLists == UNION {[1..n -> ReportedRules] : n \in 0..MaxRules}

\* The body of the loop over rules: a rule not named mprobs or psubs gets
\* upper = 50 unless it has an upper bound.
RuleInLoop(rule) ==
    IF rule.par_name \notin {"mprobs", "psubs"}
    THEN WithKey(rule, "upper", Get(rule, "upper", DefaultUpper))
    ELSE rule

\* lf.apply_param_rules(rules) on a likelihood function whose parameters are
\* described by lf_rules: the parameter at each given position takes the rule
\* given for it.
ApplyParamRules(lf_rules, positions, rules) ==
    [i \in 1..Len(lf_rules) |-> IF i \in positions THEN rules[i] ELSE lf_rules[i]]

\* The else branch of _configure_lf: rules = lf.get_param_rules(), the loop
\* over them, and after the loop lf.apply_param_rules([rule]) with the loop's
\* variable, which is the last rule, and is unbound when there was no rule.
DefaultBounds(lf_rules) ==
    LET rules == [i \in 1..Len(lf_rules) |-> RuleInLoop(lf_rules[i])]
    IN  IF Len(rules) = 0
        THEN [exc |-> "UnboundLocalError", lf_rules |-> lf_rules]
        ELSE [exc |-> "none", lf_rules |-> ApplyParamRules(lf_rules, {Len(rules)}, rules)]

\* _configure_lf from "if self._time_het" to the end of its else branch.
ConfigureBounds ==
    /\ lfrules.pc = "bound"
    /\ LET r == IF lfrules.time_het # None
                THEN [exc |-> "none", lf_rules |-> lfrules.reported]
                ELSE DefaultBounds(lfrules.reported)
       IN  lfrules' = [lfrules EXCEPT !.pc = "configured", !.exc = r.exc,
                                      !.lf_rules = r.lf_rules]
    /\ UNCHANGED << hypo, mtree, mlf, th, trace, boot, fitters, split, scorer, natsel, optfit, sel >>

\* A model made with time_het or without, whose likelihood function, bound to
\* an alignment, reports some list of rules.
InitRules ==
    /\ Untouched
    /\ split = None
    /\ scorer = None
    /\ natsel = None
    /\ optfit = None
    /\ sel = None
    /\ \E time_het \in {None, [kind |-> "max"]}, reported \in RuleLists :
          lfrules = [kind |-> "lf", pc |-> "bound", time_het |-> time_het,
                     reported |-> reported, lf_rules |-> reported, exc |-> "none"]

NextRules == ConfigureBounds

SpecRules == InitRules /\ [][NextRules]_vars

\* C19: after _configure_lf on a model without time_het, every parameter of
\* the likelihood function whose reported rule had no upper bound and is not
\* named mprobs or psubs has upper bound 50, however many there are, and
\* every other parameter's rule is as it was reported.
C19_DefaultUpperOnEveryRule ==
    (lfrules # None /\ lfrules.pc = "configured" /\ lfrules.time_het = None) =>
        /\ lfrules.exc = "none"
        /\ Len(lfrules.lf_rules) = Len(lfrules.reported)
        /\ \A i \in 1..Len(lfrules.reported) :
              LET was == lfrules.reported[i]
                  now == lfrules.lf_rules[i]
              IN  IF "upper" \notin DOMAIN was /\ was.par_name \notin {"mprobs", "psubs"}
                  THEN /\ "upper" \in DOMAIN now
                       /\ now.upper = DefaultUpper
                       /\ now.par_name = was.par_name
                  ELSE now = was

(***************************************************************************)
(* model.__init__, _configure_lf, _fit_aln and fit: the optimiser options  *)
(* and the order of what a fit does to the likelihood functions it builds. *)
(***************************************************************************)

\* tolerance=1e-3 of the pre-fit, in units of 1e-6.
QuickTolerance == 1000

\* A dict without keys.
EmptyDict == [k \in {} |-> 0]

\* d.copy() followed by update(other): other's value wins on a shared key.
Update(d, other) ==
    [k \in DOMAIN d \cup DOMAIN other |-> IF k \in DOMAIN other THEN other[k] ELSE d[k]]

\* The opt_args a caller gives the constructor: none, an empty dict, or some
\* options, with or without show_progress among them.
OptArgs ==
    {None, EmptyDict, [max_restarts |-> 2, tolerance |-> 1],
     [max_evaluations |-> 10, show_progress |-> TRUE]}

\* The overrides a caller gives one call of fit.
Overrides ==
    {EmptyDict, [max_restarts |-> 1], [tolerance |-> 100, show_progress |-> TRUE]}

\* The time_het a caller gives the constructor: None, 'max', or edge sets.
TimeHets ==
    {None, [kind |-> "max"],
     [kind |-> "edge_sets", edges |-> {"Human", "Chimp"}, is_independent |-> FALSE]}

\* model.__init__: self._opt_args = opt_args or dict(max_restarts=5,
\* show_progress=show_progress), then show_progress is set unless present.
OptArgsOnInit(opt_args, show_progress) ==
    LET given == IF opt_args = None \/ DOMAIN opt_args = {}
                 THEN [max_restarts |-> 5, show_progress |-> show_progress]
                 ELSE opt_args
    IN  WithKey(given, "show_progress", Get(given, "show_progress", show_progress))

\* One call on a likelihood function: the method, the lf, the keyword args.
Op(op, lf, kwargs) == [op |-> op, lf |-> lf, kwargs |-> kwargs]

\* _configure_lf, the local opt_args of the pre-fit: a copy of the options
\* updated with max_restart=1 and tolerance=1e-3.
QuickOptArgs(opt_args) == Update(opt_args, [max_restart |-> 1, tolerance |-> QuickTolerance])

\* The keyword args of the pre-fit: lf.optimise(**self._opt_args).
PreFitArgs(opt_args) == opt_args

\* if self._time_het == "max": set_time_heterogeneity(is_independent=True,
\* upper=50) else: set_time_heterogeneity(edge_sets=self._time_het)
TimeHetArgs(time_het) ==
    IF time_het.kind = "max" THEN [is_independent |-> TRUE, upper |-> DefaultUpper]
                             ELSE [edge_sets |-> time_het]

\* if not initialise: the pre-fit is run only without a callback.
PreFits(initialise) == initialise = "none"

\* What the environment decides for one _fit_aln: how the pre-fit, the
\* initialise callback and the main optimisation end.
OptOutcomes == [pre : {"ok", "ValueError"}, ini : {"ok", "raise"}, opt : {"ok", "ValueError"}]

\* _configure_lf on model m for the new likelihood function lf: the calls made
\* on lf in order, and the exception that ended them.
ConfigureOps(m, lf, initialise, o) ==
    LET bound == << Op("set_alignment", lf, EmptyDict) >>
                 \o (IF m.has_rules THEN << Op("apply_param_rules", lf, EmptyDict) >>
                                    ELSE << >>)
        pre   == m.time_het # None /\ PreFits(initialise)
        init  == Initialise(initialise, o.ini)
        s1    == bound \o (IF pre THEN << Op("optimise", lf, PreFitArgs(m.opt_args)) >>
                                  ELSE << >>)
        s2    == s1 \o (IF m.time_het # None
                        THEN << Op("set_time_heterogeneity", lf, TimeHetArgs(m.time_het)) >>
                        ELSE << Op("apply_default_bounds", lf, EmptyDict) >>)
        s3    == s2 \o (IF initialise # "none" THEN << Op("initialise", lf, EmptyDict) >>
                                               ELSE << >>)
    IN  IF pre /\ o.pre # "ok" THEN [exc |-> o.pre, ops |-> s1]
        ELSE IF init.exc # "none" THEN [exc |-> init.exc, ops |-> s3]
        ELSE [exc |-> "none", ops |-> s3]

\* The keyword args of the main optimisation with the model's options winning
\* over the call's.
FitKwargsStoredWin(opt_args, overrides) ==
    WithKey(Update(overrides, opt_args), "return_calculator", TRUE)

\* _fit_aln: kwargs = self._opt_args.copy(); kwargs.update(opt_args);
\* lf.optimise(return_calculator=True, **kwargs)
FitKwargs(opt_args, overrides) ==
    WithKey(Update(opt_args, overrides), "return_calculator", TRUE)

\* One call of _fit_aln on model m: the calls made on likelihood functions,
\* the exception, and what self._lf and the count of lfs made become.
FitAlnOps(m, initialise, construct, overrides, o) ==
    LET new == m.made + 1
        c   == IF construct THEN ConfigureOps(m, new, initialise, o)
                            ELSE [exc |-> "none", ops |-> << >>]
        lf  == IF construct /\ c.exc = "none" THEN new ELSE m.lf
        run == Op("optimise", lf, FitKwargs(m.opt_args, overrides))
    IN  [exc  |-> IF c.exc # "none" THEN c.exc ELSE IF o.opt # "ok" THEN o.opt ELSE "none",
         ops  |-> IF c.exc # "none" THEN c.ops ELSE Append(c.ops, run),
         lf   |-> lf,
         made |-> IF construct THEN new ELSE m.made]

\* A caller makes the model: model(sm, tree, time_het=, param_rules=,
\* opt_args=, split_codons=, show_progress=).
MakeModel ==
    /\ optfit = None
    /\ \E opt_args \in OptArgs, show_progress \in BOOLEAN, time_het \in TimeHets,
          split_codons \in BOOLEAN, has_rules \in BOOLEAN :
          optfit' = [kind |-> "model",
                     opt_args |-> OptArgsOnInit(opt_args, show_progress),
                     configured |-> OptArgsOnInit(opt_args, show_progress),
                     time_het |-> time_het, split_codons |-> split_codons,
                     has_rules |-> has_rules, lf |-> 0, made |-> 0, n |-> 0,
                     pc |-> "idle", initialise |-> "none", construct |-> TRUE,
                     overrides |-> EmptyDict, earlier |-> << >>, i |-> 0,
                     log |-> << >>, exc |-> "none"]
    /\ UNCHANGED << hypo, mtree, mlf, th, trace, boot, fitters, split, scorer, natsel, lfrules, sel >>

\* fit(aln, initialise=, construct=, **opt_args) is called on the model; a
\* caller passes construct=False only once a likelihood function was built.
OptCall ==
    /\ optfit # None /\ optfit.pc \in {"idle", "done"}
    /\ optfit.n < MaxOptFits
    /\ \E initialise \in {"none", "custom"}, construct \in BOOLEAN, overrides \in Overrides :
          /\ ~construct => optfit.lf # 0
          /\ optfit' = [optfit EXCEPT
                          !.pc = "fitting", !.n = @ + 1, !.initialise = initialise,
                          !.construct = construct, !.overrides = overrides,
                          !.earlier = IF optfit.n = 0 THEN << >>
                                      ELSE Append(@, optfit.overrides),
                          !.i = 0, !.log = << >>, !.exc = "none"]
    /\ UNCHANGED << hypo, mtree, mlf, th, trace, boot, fitters, split, scorer, natsel, lfrules, sel >>

\* One call of _fit_aln by fit: the only one, or the next of the three of a
\* model that splits codons.
OptFitAln ==
    /\ optfit # None /\ optfit.pc = "fitting"
    /\ \E o \in OptOutcomes :
         LET r    == FitAlnOps(optfit, optfit.initialise, optfit.construct,
                               optfit.overrides, o)
             last == ~optfit.split_codons \/ optfit.i + 1 = 3
         IN  optfit' = [optfit EXCEPT
                          !.lf = r.lf, !.made = r.made, !.log = @ \o r.ops,
                          !.i = @ + 1, !.exc = r.exc,
                          !.pc = IF r.exc # "none" \/ last THEN "done" ELSE "fitting"]
    /\ UNCHANGED << hypo, mtree, mlf, th, trace, boot, fitters, split, scorer, natsel, lfrules, sel >>

InitOpt ==
    /\ Untouched
    /\ split = None
    /\ scorer = None
    /\ natsel = None
    /\ lfrules = None
    /\ optfit = None
    /\ sel = None

NextOpt == MakeModel \/ OptCall \/ OptFitAln

SpecOpt == InitOpt /\ [][NextOpt]_vars

\* The positions of the calls logged for the fit in progress or just ended.
LogIdx == 1..Len(optfit.log)

\* The main optimisation of _fit_aln is the one asked for its calculator.
IsMainOptimise(e) == e.op = "optimise" /\ "return_calculator" \in DOMAIN e.kwargs

IsPreFit(e) == e.op = "optimise" /\ "return_calculator" \notin DOMAIN e.kwargs

\* C23: on a model made with time_het, every set_time_heterogeneity a fit
\* calls on a likelihood function comes after an optimisation of that
\* likelihood function (the pre-fit of the time-homogeneous model), with or
\* without an initialise callback, and is called with is_independent=True and
\* upper=50 for 'max' and with the caller's edge sets otherwise.
C23_PreFitBeforeTimeHet ==
    (optfit # None /\ optfit.time_het # None) =>
        \A j \in LogIdx :
            optfit.log[j].op = "set_time_heterogeneity" =>
                /\ \E i \in 1..(j - 1) :
                      IsPreFit(optfit.log[i]) /\ optfit.log[i].lf = optfit.log[j].lf
                /\ optfit.log[j].kwargs =
                      (IF optfit.time_het.kind = "max"
                       THEN [is_independent |-> TRUE, upper |-> DefaultUpper]
                       ELSE [edge_sets |-> optfit.time_het])

\* C24: every pre-fit runs with tolerance 1e-3 and one restart laid over the
\* model's options (every other option as the model has it), and the model's
\* options stay what the constructor made them.
C24_PreFitIsQuick ==
    optfit # None =>
        /\ optfit.opt_args = optfit.configured
        /\ \A j \in LogIdx :
              IsPreFit(optfit.log[j]) =>
                  LET kw == optfit.log[j].kwargs IN
                  /\ "tolerance" \in DOMAIN kw /\ kw.tolerance = QuickTolerance
                  /\ \/ "max_restarts" \in DOMAIN kw /\ kw.max_restarts = 1
                     \/ "max_restart" \in DOMAIN kw /\ kw.max_restart = 1
                  /\ \A k \in DOMAIN optfit.configured \ {"tolerance", "max_restarts"} :
                        k \in DOMAIN kw /\ kw[k] = optfit.configured[k]

\* C25: in a fit given an initialise callback, with construct=True or False,
\* every main optimisation of a likelihood function comes after exactly one
\* call of the callback on that likelihood function, itself after the
\* alignment was bound (and the rules applied, when the model has rules).
C25_InitialiseOncePerLf ==
    (optfit # None /\ optfit.initialise # "none") =>
        \A j \in LogIdx :
            IsMainOptimise(optfit.log[j]) =>
                LET lf    == optfit.log[j].lf
                    calls == {i \in LogIdx : optfit.log[i].op = "initialise"
                                             /\ optfit.log[i].lf = lf}
                IN  /\ Cardinality(calls) = 1
                    /\ \A i \in calls :
                          /\ i < j
                          /\ \E b \in 1..(i - 1) :
                                optfit.log[b] = Op("set_alignment", lf, EmptyDict)
                          /\ optfit.has_rules =>
                                \E b \in 1..(i - 1) :
                                   optfit.log[b] = Op("apply_param_rules", lf, EmptyDict)

\* The overrides of a call win over the model's options key by key.
OverridesWin(kw, overrides) ==
    /\ DOMAIN kw = DOMAIN optfit.configured \cup DOMAIN overrides \cup {"return_calculator"}
    /\ \A k \in DOMAIN overrides : kw[k] = overrides[k]
    /\ \A k \in DOMAIN optfit.configured \ DOMAIN overrides : kw[k] = optfit.configured[k]

\* C27: every main optimisation runs with the options the constructor stored
\* overridden key by key by the overrides of the call it belongs to, and with
\* nothing of an earlier call's overrides; the stored options never change.
C27_OverridesWinAndDoNotPersist ==
    optfit # None =>
        /\ optfit.opt_args = optfit.configured
        /\ \A j \in LogIdx :
              IsMainOptimise(optfit.log[j]) =>
                  OverridesWin(optfit.log[j].kwargs, optfit.overrides)

\* C27 witness: a fit without overrides, after a fit that overrode
\* max_restarts, optimised with the configured max_restarts=5.
C27_Witness ==
    /\ optfit # None /\ optfit.pc = "done" /\ optfit.n = 2 /\ optfit.exc = "none"
    /\ optfit.earlier = << [max_restarts |-> 1] >>
    /\ optfit.overrides = EmptyDict
    /\ optfit.configured = [max_restarts |-> 5, show_progress |-> FALSE]
    /\ \E j \in LogIdx : /\ IsMainOptimise(optfit.log[j])
                         /\ optfit.log[j].kwargs.max_restarts = 5

(***************************************************************************)
(* natsel_zhang and natsel_sitehet: test_hypothesis and the alternate      *)
(* built at each call from the fitted null (_get_alt_from_null).           *)
(***************************************************************************)

\* A dict without one key.
Without(d, key) == [k \in DOMAIN d \ {key} |-> d[k]]

\* The classes that build their alternate at each call.
SelClasses == NatselClasses \ BuildsAlt

\* The bins the alternate adds to the null's.
NewBins(cls) == IF cls = "natsel_zhang" THEN {"2a", "2b"} ELSE {"+ve"}

\* lf_args["bins"] of the alternate.
AltBins(cls) ==
    IF cls = "natsel_zhang" THEN << "0", "1", "2a", "2b" >> ELSE << "-ve", "neutral", "+ve" >>

\* self.alt_args as the constructor leaves it; natsel_sitehet has no edges.
AltArgs(cls, sm, tree, edges, upper_omega) ==
    LET common == [sm |-> sm, tree |-> tree, name |-> << sm.name, "-alt" >>,
                   bins |-> AltBins(cls), upper_omega |-> upper_omega]
    IN  IF cls = "natsel_zhang" THEN WithKey(common, "edges", edges) ELSE common

\* What fitting the null to the alignment of the calls yields: the probability
\* of the null's first bin (the second has the rest), and whether the motif
\* probabilities are reported constant, free, or free with an upper bound.
FitSet ==
    [p : {Epsilon, 2 * Epsilon, One \div 4, One \div 2},
     mprobs : {"constant", "free", "bounded"}]

\* null.lf.get_param_rules() on the fitted null: omega of each bin, the bin
\* probabilities, the motif probabilities.
FittedRules(cls, w) ==
    LET bins == NullBins(cls) IN
    << [par_name |-> "omega", bin |-> bins[1], init |-> One \div 2, upper |-> One - Epsilon],
       [par_name |-> "omega", bin |-> bins[2], is_constant |-> TRUE, value |-> One],
       [par_name |-> "bprobs",
        init |-> [b \in {bins[1], bins[2]} |-> IF b = bins[1] THEN w.p ELSE One - w.p]],
       CASE w.mprobs = "constant" -> [par_name |-> "mprobs", is_constant |-> TRUE]
         [] w.mprobs = "free"     -> [par_name |-> "mprobs"]
         [] OTHER                 -> [par_name |-> "mprobs", upper |-> One] >>

\* lf.get_param_rules(): the rules of lf as a new list of new dicts, which
\* a caller may edit without touching lf.
GetParamRules(lf) == lf.rules

\* for k in r["init"]: r["init"][k] -= epsilon, then r["init"].update(new
\* bins at epsilon).
ExtendBprobs(init, new_bins) ==
    [k \in DOMAIN init \cup new_bins |-> IF k \in new_bins THEN Epsilon ELSE init[k] - Epsilon]

\* The loop over the null's rules: bprobs is extended to the new bins; in
\* natsel_zhang an omega rule's bin becomes bins, paired with 2a or 2b.
AltRule(cls, r) ==
    IF r.par_name = "bprobs"
    THEN WithKey(r, "init", ExtendBprobs(r.init, NewBins(cls)))
    ELSE IF cls = "natsel_zhang" /\ r.par_name = "omega"
         THEN WithKey(Without(r, "bin"), "bins",
                      IF r.bin = "0" THEN << r.bin, "2a" >> ELSE << r.bin, "2b" >>)
         ELSE r

\* The rule appended for omega of the new bins.
NewOmegaRule(cls, alt_args) ==
    IF cls = "natsel_zhang"
    THEN [par_name |-> "omega", bins |-> << "2a", "2b" >>, edges |-> alt_args.edges,
          lower |-> One, upper |-> alt_args.upper_omega, init |-> One + Epsilon]
    ELSE [par_name |-> "omega", bin |-> "+ve", lower |-> One,
          upper |-> alt_args.upper_omega, init |-> One + Epsilon]

\* self.alt_args after the pops, had they been made on self.alt_args itself.
AltArgsPopped(alt_args) == Without(Without(alt_args, "edges"), "upper_omega")

\* alt_args = self.alt_args.copy(): the pops are made on the copy, and
\* self.alt_args keeps its keys.
AltArgsKept(alt_args) == alt_args

\* _get_alt_from_null: the alternate model made from the rules of the null's
\* fitted likelihood function, and self.alt_args afterwards.
GetAltFromNull(cls, alt_args, lf_rules) ==
    LET rules == [i \in 1..Len(lf_rules) |-> AltRule(cls, lf_rules[i])]
        popped == IF cls = "natsel_zhang" THEN {"edges", "upper_omega"} ELSE {"upper_omega"}
    IN  IF ~(popped \subseteq DOMAIN alt_args)
        THEN [exc |-> "KeyError", alt |-> None, alt_args |-> alt_args]
        ELSE [exc |-> "none",
              alt |-> ModelInit(alt_args.name, alt_args.tree,
                                Append(rules, NewOmegaRule(cls, alt_args)), alt_args.bins),
              alt_args |-> AltArgsKept(alt_args)]

\* self.null(aln) and alt(aln): the call hands the alignment to fit, and what
\* fit raises reaches the caller.
CallModel(m, lf_rules, opt) ==
    IF opt # "ok" THEN Raised(opt)
    ELSE [kind |-> "model_result", name |-> m.name, lf |-> [rules |-> lf_rules]]

\* The rules of the likelihood function the alternate's fit configures:
\* apply_param_rules(self._param_rules), then the default bounds.
AltLfRules(alt) == DefaultBounds(alt.param_rules).lf_rules

\* test_hypothesis of test s on the alignment: what it returns or raises, the
\* alternate it built, and the fields of s afterwards.
TestHypothesis(s, o) ==
    LET fitted      == FittedRules(s.cls, s.fit)
        null_result == CallModel(s.null, fitted, o.null)
        g           == GetAltFromNull(s.cls, s.alt_args, GetParamRules(null_result.lf))
        alt_result  == CallModel(g.alt, AltLfRules(g.alt), o.alt)
        leave(ret)  == [ret |-> ret, alt |-> None, alt_lf |-> None, alt_args |-> s.alt_args,
                        null_lf |-> IF o.null = "ok" THEN [rules |-> fitted] ELSE s.null_lf]
    IN  IF null_result.kind = "Raised" THEN leave(null_result)
        ELSE IF ~Truthy(null_result) THEN leave(null_result)
        ELSE IF g.exc # "none" THEN leave(Raised(g.exc))
        ELSE [ret |-> IF alt_result.kind = "Raised" \/ ~Truthy(alt_result)
                      THEN alt_result
                      ELSE [kind |-> "hypothesis_result", name_of_null |-> null_result.name,
                            null |-> null_result, alt |-> alt_result],
              alt |-> g.alt, alt_lf |-> [rules |-> AltLfRules(g.alt)],
              alt_args |-> g.alt_args, null_lf |-> [rules |-> fitted]]

\* A caller constructs natsel_zhang or natsel_sitehet with a codon model, for
\* use on an alignment whose null fit is fit.
MakeSel ==
    /\ sel = None
    /\ \E cls \in SelClasses, edges \in {{"Human"}, {"Human", "Chimp"}},
          upper_omega \in {UpperOmega, 2 * One}, fit \in FitSet :
          LET sm   == [given |-> "instance", name |-> "CNFGTR"]
              tree == [kind |-> "tree"]
              null == ModelInit(<< sm.name, "-null" >>, tree, NullParamRules(cls), NullBins(cls))
              args == AltArgs(cls, sm, tree, edges, upper_omega)
          IN  /\ cls = "natsel_sitehet" => edges = {"Human"}
              /\ sel' = [kind |-> "natsel", cls |-> cls, null |-> null, alt_args |-> args,
                         made |-> [null |-> null, alt_args |-> args],
                         fit |-> fit, null_lf |-> None, n |-> 0, nulls |-> << >>,
                         alts |-> << >>, alt_lf |-> None, ret |-> None]
    /\ UNCHANGED << hypo, mtree, mlf, th, trace, boot, fitters, split, scorer, natsel, lfrules, optfit >>

\* The test is called on the alignment.
CallSel ==
    /\ sel # None /\ sel.n < MaxSelCalls
    /\ \E o \in [null : {"ok", "ValueError"}, alt : {"ok", "ValueError"}] :
          LET r == TestHypothesis(sel, o) IN
          sel' = [sel EXCEPT !.n = @ + 1, !.alt_args = r.alt_args, !.null_lf = r.null_lf,
                             !.nulls = Append(@, o.null),
                             !.alts = Append(@, r.alt), !.alt_lf = r.alt_lf,
                             !.ret = r.ret]
    /\ UNCHANGED << hypo, mtree, mlf, th, trace, boot, fitters, split, scorer, natsel, lfrules, optfit >>

InitSel ==
    /\ Untouched
    /\ split = None
    /\ scorer = None
    /\ natsel = None
    /\ lfrules = None
    /\ optfit = None
    /\ sel = None

NextSel == MakeSel \/ CallSel

SpecSel == InitSel /\ [][NextSel]_vars

\* The calls made of the test, and those that built an alternate.
SelCalls == 1..Len(sel.alts)

Built == {i \in SelCalls : sel.alts[i] # None}

\* The rules the fitted null reports, and the position of bprobs among them.
SelFitted == FittedRules(sel.cls, sel.fit)

BprobsAt == CHOOSE i \in 1..Len(SelFitted) : SelFitted[i].par_name = "bprobs"

\* The sum of the values of a dict.
RECURSIVE SumOf(_)
SumOf(d) ==
    IF DOMAIN d = {} THEN 0
    ELSE LET k == CHOOSE x \in DOMAIN d : TRUE IN d[k] + SumOf(Without(d, k))

\* C22: a call of natsel_zhang or natsel_sitehet never ends with an
\* exception; when the null fit or the alternate fit ended with a bounds
\* error the call returns a not-completed value, and after a failed null no
\* alternate was built.
C22_BoundsErrorAbsorbed ==
    (sel # None /\ sel.n > 0) =>
        /\ sel.ret.kind \in {"hypothesis_result", "NotCompleted"}
        /\ sel.nulls[sel.n] = "ValueError" =>
              sel.ret.kind = "NotCompleted" /\ sel.alts[sel.n] = None

\* C26: where the fitted null reports a rule for mprobs or psubs without an
\* upper bound, the alternate model made from the null's rules holds that
\* rule without an upper bound, and so does the likelihood function the
\* alternate's fit configures.
C26_NoUpperForMprobs ==
    sel # None =>
        \A c \in Built : \A i \in 1..Len(SelFitted) :
            (SelFitted[i].par_name \in {"mprobs", "psubs"}
             /\ "upper" \notin DOMAIN SelFitted[i]) =>
                /\ "upper" \notin DOMAIN sel.alts[c].param_rules[i]
                /\ c = sel.n => "upper" \notin DOMAIN sel.alt_lf.rules[i]

\* C28: the starting bin probabilities of every alternate built sum to what
\* the null's fitted bin probabilities sum to.
C28_BprobsReallocated ==
    sel # None =>
        \A c \in Built :
            SumOf(sel.alts[c].param_rules[BprobsAt].init) = SumOf(SelFitted[BprobsAt].init)

\* C29: every bin of every alternate built starts with a probability above
\* zero.
C29_BprobsPositive ==
    sel # None =>
        \A c \in Built :
            LET init == sel.alts[c].param_rules[BprobsAt].init IN
            /\ DOMAIN init = {AltBins(sel.cls)[i] : i \in 1..Len(AltBins(sel.cls))}
            /\ \A k \in DOMAIN init : init[k] > 0

====
